---- MODULE Spec2Model ----
(***************************************************************************)
(* The gitlab input plugin (plugins/inputs/gitlab/gitlab.go): the          *)
(* orchestrator's Start and Stop, the merge-request walker                 *)
(* (fetchMergeRequests) and the commit walker (fetchCommits), running as   *)
(* goroutines against a GitLab API that answers page requests.             *)
(*                                                                         *)
(* One Start/Stop cycle is numbered c = 1, 2, ...; every object Start      *)
(* creates (the context, the WaitGroup, the two goroutines) is indexed by  *)
(* the cycle that created it.  Items of a stream are numbered 1, 2, ... in *)
(* API order; page p of a stream holds items p*pp+1 .. p*pp+pp.            *)
(***************************************************************************)
EXTENDS Integers, Sequences, FiniteSets, TLC

\* ---------------------------------------------------------------- bounds

\* Page size.  The source fixes pp at 100 (gitlab.go:106 and :146); the
\* walkers read it only in the request and in len(items) < pp, so the model
\* scales it down.
pp == 2

\* Largest finite source: a stream has 0..MaxItems items, or is endless
\* (it answers every request with a full page).
MaxItems == 3

\* Number of Start calls the host makes.
MaxStarts == 2

\* Longest title enumerated character by character.
MaxLen == 6

\* Largest project identifier of the lookups resolved on their own.
MaxIDs == 3

\* ---------------------------------------------------------- configuration

\* h.Repos, the configured repository names.
Repos == <<"a", "b">>

Cycles == 1..MaxStarts

\* The streams: the merge requests, and the commits of each configured
\* repository.
Streams == {"mr"} \cup {Repos[i] : i \in 1..Len(Repos)}

\* The page cursor of a finite source stops below MaxPage; the cursor of a
\* walker on an endless source is kept at MaxPage.
MaxPage == (MaxItems \div pp) + 1

\* The sink's record of a stream is kept for its first MaxLog entries,
\* which holds every finite source whole.
MaxLog == MaxItems + pp

\* What list-projects can answer with (ps of gitlab.go:76).
ProjectLists ==
    { << [ID |-> 1, Name |-> "a"], [ID |-> 2, Name |-> "b"] >>,
      << [ID |-> 1, Name |-> "a"] >>,
      << [ID |-> 1, Name |-> "a"], [ID |-> 2, Name |-> "a"] >> }

http_StatusOK == 200

VARIABLES
    pcMain,     \* where the host's thread is in Start / Stop
    starts,     \* number of Start calls so far; the current cycle
    ps,         \* Start's local ps: the projects list-projects returned
    status,     \* Start's local resp.StatusCode
    fillIdx,    \* position of Start's "for _, p := range ps"
    client,     \* h.client: 0 is nil, c the client made by cycle c
    projects,   \* h.projects: the map from identifier to name
    cancelled,  \* cancelled[c]: h.cancel of cycle c has been called
    wg,         \* wg[c]: the counter of the WaitGroup made by cycle c
    mrw,        \* mrw[c]: the fetchMergeRequests goroutine of cycle c
    cw,         \* cw[c]: the fetchCommits goroutine of cycle c
    acc,        \* acc[c][s]: what the sink received from stream s of cycle c
    api,        \* api[c][s]: what the API saw of, and told, stream s of cycle c
    panic,      \* "none", or why the process died
    call        \* a function called on its own: its arguments and results

vars == << pcMain, starts, ps, status, fillIdx, client, projects, cancelled,
           wg, mrw, cw, acc, api, panic, call >>

\* ------------------------------------------------------------- the API

Min(a, b) == IF a < b THEN a ELSE b
Max(a, b) == IF a > b THEN a ELSE b

\* The items of page `page` when it holds n items, in API order.
PageItems(page, n) == [i \in 1..n |-> page * pp + i]

\* The lengths the API may answer page `page` with, for a stream of which
\* a.known items are known to exist so far (a.closed: there are no more).
\* A source is finite with at most MaxItems items, or endless; a.known above
\* MaxItems stands for the endless source.
PageLens(a, page) ==
    LET base == page * pp IN
    IF a.closed THEN {Max(0, Min(pp, a.known - base))}
    ELSE IF base + pp <= a.known THEN {pp}
    ELSE {n \in 0..pp : /\ base + n >= a.known
                        /\ n < pp => (base + n <= MaxItems /\ a.known <= MaxItems)}

\* What a list call returns: err is "none" with a page of n items,
\* "transport" (no response at all: the *gitlab.Response is nil) or "http"
\* (an error with the response returned).  A project that does not exist
\* (identifier 0) only ever answers with an error.
Answers(a, page, exists) ==
    {[err |-> "transport", n |-> 0], [err |-> "http", n |-> 0]}
    \cup (IF exists THEN {[err |-> "none", n |-> n] : n \in PageLens(a, page)} ELSE {})

\* The API's view of a stream after it was asked for `page`.
Requested(a, page) ==
    [a EXCEPT !.requests = IF Len(@) < MaxPage + 2 THEN Append(@, page) ELSE @]

\* The API's view of a stream after it answered `page` with n items.
Answered(a, page, n) ==
    [a EXCEPT !.known = Min(Max(@, page * pp + n), MaxItems + 1),
              !.closed = @ \/ n < pp]

\* What list-projects returns (gitlab.go:76): an error, or the list with a
\* status; the client library returns no error for 200 and for 204.
ListResults ==
    {[err |-> "transport", ps |-> << >>, status |-> 0],
     [err |-> "http", ps |-> << >>, status |-> 500]}
    \cup {[err |-> "none", ps |-> p, status |-> st] :
             p \in ProjectLists, st \in {http_StatusOK, 204}}

\* ------------------------------------------------------------ the sink

\* acc.AddFields for each item of a page, in order.
AddFields(a, items) ==
    IF Len(a.fields) + Len(items) <= MaxLog
    THEN [a EXCEPT !.fields = @ \o items] ELSE a

\* The identifiers merge request number i of the source carries.
MRProjectID(i) == i
MRSourceProjectID(i) == i + 1
MRTargetProjectID(i) == i - 1

\* A lookup that names the projects it does not hold "unknown".
LookupUnknown(m, id) == IF id \in DOMAIN m THEN m[id] ELSE "unknown"

\* h.projects[id]: the name, or the zero value "" for an absent key.
Lookup(m, id) == IF id \in DOMAIN m THEN m[id] ELSE ""

\* tmpTags of merge request i: the three project names read from h.projects.
MRTags(m, i) ==
    [project |-> Lookup(m, MRProjectID(i)),
     source_project |-> Lookup(m, MRSourceProjectID(i)),
     target_project |-> Lookup(m, MRTargetProjectID(i))]

\* acc.AddFields("merge_requests", tmpFields, tmpTags, ..) for each merge
\* request of a page, in order.
AddMRFields(a, items, m) ==
    IF Len(a.fields) + Len(items) <= MaxLog
    THEN [a EXCEPT !.fields = @ \o items,
                   !.tags = @ \o [i \in 1..Len(items) |-> MRTags(m, items[i])]]
    ELSE a

\* acc.AddError.
AddError(a, e) ==
    [a EXCEPT !.errors = IF Len(@) < MaxLog THEN Append(@, e) ELSE @]

\* ------------------------------------------------------- pure functions

\* h.projects[p.ID] = p.Name
MapPut(m, id, name) ==
    [x \in (DOMAIN m) \cup {id} |-> IF x = id THEN name ELSE m[x]]

\* A mapkey that finds the key and forgets to set ok.
mapkeyOkUnset(m, value) ==
    LET hits == {k \in DOMAIN m : m[k] = value} IN
    IF hits = {} THEN {[key |-> 0, ok |-> FALSE]}
    ELSE {[key |-> k, ok |-> FALSE] : k \in hits}

\* mapkey: the results "for k, v := range m" can give; Go ranges over a
\* map in an unspecified order, so any key holding the value may be found.
mapkey(m, value) ==
    LET hits == {k \in DOMAIN m : m[k] = value} IN
    IF hits = {} THEN {[key |-> 0, ok |-> FALSE]}
    ELSE {[key |-> k, ok |-> TRUE] : k \in hits}

\* ---------------------------------------------------- titles and text

\* A string is the sequence of its characters.
LowerCase ==
    << "a", "b", "c", "d", "e", "f", "g", "h", "i", "j", "k", "l", "m",
       "n", "o", "p", "q", "r", "s", "t", "u", "v", "w", "x", "y", "z" >>
UpperCase ==
    << "A", "B", "C", "D", "E", "F", "G", "H", "I", "J", "K", "L", "M",
       "N", "O", "P", "Q", "R", "S", "T", "U", "V", "W", "X", "Y", "Z" >>
Digits == {"0", "1", "2", "3", "4", "5", "6", "7", "8", "9"}

\* The character classes of the two patterns: [a-zA-Z], \d, and \W (all
\* but letters, digits and the underscore).
IsLetter(ch) == \E i \in 1..26 : ch = LowerCase[i] \/ ch = UpperCase[i]
IsDigit(ch) == ch \in Digits
IsWord(ch) == IsLetter(ch) \/ IsDigit(ch) \/ ch = "_"
IsNonWord(ch) == ~IsWord(ch)

\* The patterns of findTicketID and getMRType: an optional ^, `words`
\* groups of [a-zA-Z]+\W, then \d{minDigits,maxDigits}.
ticketRe == [anchored |-> FALSE, words |-> 1, minDigits |-> 2, maxDigits |-> 5]
typeRe == [anchored |-> TRUE, words |-> 2, minDigits |-> 2, maxDigits |-> 5]

\* The positions at which n groups of [a-zA-Z]+\W that start at position i
\* of s can end (the position after the last separator).
RECURSIVE WordsEnd(_, _, _)
WordsEnd(s, i, n) ==
    IF n = 0 THEN {i}
    ELSE UNION { WordsEnd(s, i + k + 1, n - 1) :
                   k \in { k \in 1..(Len(s) - i) :
                             /\ \A j \in i..(i + k - 1) : IsLetter(s[j])
                             /\ IsNonWord(s[i + k]) } }

\* The numbers of digits \d{min,max} can take at position p of s.
DigitsAt(s, p, re) ==
    { d \in re.minDigits..re.maxDigits :
        /\ p + d - 1 <= Len(s)
        /\ \A j \in p..(p + d - 1) : IsDigit(s[j]) }

\* The ends (last positions) of the matches of re that start at position i.
MatchEnds(re, s, i) ==
    UNION { { p + d - 1 : d \in DigitsAt(s, p, re) } :
              p \in WordsEnd(s, i, re.words) }

\* The largest member of a non-empty set of numbers.
Largest(S) == CHOOSE x \in S : \A y \in S : y <= x

\* regexp.FindString: the match at the leftmost position that has one
\* (position 1 only, under ^), every repetition as long as it can be; the
\* empty string when nothing matches.
FindString(re, s) ==
    LET from == { i \in 1..Len(s) :
                    /\ re.anchored => i = 1
                    /\ MatchEnds(re, s, i) # {} } IN
    IF from = {} THEN << >>
    ELSE LET i == CHOOSE x \in from : \A y \in from : x <= y IN
         SubSeq(s, i, Largest(MatchEnds(re, s, i)))

\* A matcher that is content with a single digit.
findTicketIDOneDigit(s) == FindString([ticketRe EXCEPT !.minDigits = 1], s)

\* gitlab.go:195-201
findTicketID(s) == FindString(ticketRe, s)

\* strings.NewReplacer("/", "-", " ", "-", ":", "-").Replace, per character.
Replace(ch) == IF ch \in {"/", " ", ":"} THEN "-" ELSE ch

\* strings.ToUpper, per character.
ToUpper(ch) ==
    IF \E i \in 1..26 : ch = LowerCase[i]
    THEN UpperCase[CHOOSE i \in 1..26 : ch = LowerCase[i]]
    ELSE ch

\* A formatter that leaves the case as it is.
formatTicketIDKeepCase(s) == [i \in 1..Len(s) |-> Replace(s[i])]

\* gitlab.go:203-208
formatTicketID(s) == [i \in 1..Len(s) |-> ToUpper(Replace(s[i]))]

\* strings.Split(s, "-"): the pieces of s between the "-", at least one.
RECURSIVE Split(_)
Split(s) ==
    LET at == { i \in 1..Len(s) : s[i] = "-" } IN
    IF at = {} THEN << s >>
    ELSE LET i == CHOOSE x \in at : \A y \in at : x <= y IN
         << SubSeq(s, 1, i - 1) >> \o Split(SubSeq(s, i + 1, Len(s)))

\* gitlab.go:210-219
getMRType(s) ==
    LET sr == FindString(typeRe, s)
        data == formatTicketID(sr)
        tempData == Split(data)
    IN tempData[1]

\* A walker that never moves its cursor.
NextPageStuck(page) == page

\* A walker that moves its cursor by two.
NextPageSkip(page) == Min(page + 2, MaxPage)

\* page += 1 (the cursor of a walker on an endless source stays at MaxPage)
NextPage(page) == Min(page + 1, MaxPage)

\* A walker that also stops on a full page.
ShortPageOrFull(n) == n <= pp

\* if len(items) < pp { break }
ShortPage(n) == n < pp

\* ---------------------------------------------------------------- Init

NoStream == [fields |-> << >>, tags |-> << >>, errors |-> << >>]
NoCalls == [requests |-> << >>, known |-> 0, closed |-> FALSE]

\* No function is being called on its own.
NoCall == [fn |-> "none"]

\* The plugin as constructed: no Start yet.
Idle ==
    /\ pcMain = "idle"
    /\ starts = 0
    /\ ps = << >>
    /\ status = 0
    /\ fillIdx = 0
    /\ client = 0
    /\ projects = << >>
    /\ cancelled = [c \in Cycles |-> FALSE]
    /\ wg = [c \in Cycles |-> 0]
    /\ mrw = [c \in Cycles |-> [pc |-> "none", page |-> 0]]
    /\ cw = [c \in Cycles |-> [pc |-> "none", page |-> 0, rep |-> 0, key |-> 0]]
    /\ acc = [c \in Cycles |-> [s \in Streams |-> NoStream]]
    /\ api = [c \in Cycles |-> [s \in Streams |-> NoCalls]]
    /\ panic = "none"

Init == Idle /\ call = NoCall

Alive == panic = "none"

\* --------------------------------------------------------------- Start

\* Start, gitlab.go:63-73: the new context and WaitGroup, wg.Add(1), then
\* url.Parse; on a parse error Start returns, else it makes the client.
StartCall ==
    /\ starts' = starts + 1
    /\ cancelled' = [cancelled EXCEPT ![starts + 1] = FALSE]
    /\ wg' = [wg EXCEPT ![starts + 1] = 1]
    /\ \E malformed \in BOOLEAN :
          IF malformed
          THEN pcMain' = "errConfig" /\ client' = client
          ELSE pcMain' = "list" /\ client' = starts + 1
    /\ UNCHANGED << call, ps, status, fillIdx, projects, mrw, cw, acc, api, panic >>

\* The host's first call of Start.
StartBegin ==
    /\ Alive
    /\ pcMain = "idle"
    /\ StartCall

\* The host calls Start again, after a Start that failed or after Stop.
Restart ==
    /\ Alive
    /\ pcMain \in {"errConfig", "errList", "errStatus", "stopped"}
    /\ starts < MaxStarts
    /\ StartCall

\* gitlab.go:76-81: list-projects; on an error Start returns.
StartList ==
    /\ Alive
    /\ pcMain = "list"
    /\ \E r \in ListResults :
          IF r.err # "none"
          THEN pcMain' = "errList" /\ UNCHANGED << call, ps, status >>
          ELSE pcMain' = "make" /\ ps' = r.ps /\ status' = r.status
    /\ UNCHANGED << call, starts, fillIdx, client, projects, cancelled, wg, mrw, cw,
                    acc, api, panic >>

\* gitlab.go:83: h.projects = make(map[int]string)
StartMake ==
    /\ Alive
    /\ pcMain = "make"
    /\ projects' = << >>
    /\ fillIdx' = 1
    /\ pcMain' = "fill"
    /\ UNCHANGED << call, starts, ps, status, client, cancelled, wg, mrw, cw, acc,
                    api, panic >>

\* gitlab.go:84-86: one turn of "for _, p := range ps"
StartFill ==
    /\ Alive
    /\ pcMain = "fill"
    /\ fillIdx <= Len(ps)
    /\ projects' = MapPut(projects, ps[fillIdx].ID, ps[fillIdx].Name)
    /\ fillIdx' = fillIdx + 1
    /\ UNCHANGED << call, pcMain, starts, ps, status, client, cancelled, wg, mrw, cw,
                    acc, api, panic >>

\* A Start that does not look at the status.
AfterStatusIgnored(st) == "go"

\* gitlab.go:88-90: where Start goes after the status check.
AfterStatus(st) == IF st # http_StatusOK THEN "errStatus" ELSE "go"

\* gitlab.go:87-90: the loop is over; close the body, check the status.
StartStatus ==
    /\ Alive
    /\ pcMain = "fill"
    /\ fillIdx > Len(ps)
    /\ pcMain' = AfterStatus(status)
    /\ UNCHANGED << call, starts, ps, status, fillIdx, client, projects, cancelled,
                    wg, mrw, cw, acc, api, panic >>

\* fetchCommits' "for _, rep := range h.Repos": the walker's state as it
\* turns to repository number rep.
ToRepo(w, rep) ==
    IF rep <= Len(Repos)
    THEN [pc |-> "resolve", page |-> 0, rep |-> rep, key |-> 0]
    ELSE [w EXCEPT !.pc = "done"]

\* gitlab.go:92-94: the two go statements; Start returns nil.
StartGo ==
    /\ Alive
    /\ pcMain = "go"
    /\ mrw' = [mrw EXCEPT ![starts] = [pc |-> "call", page |-> 0]]
    /\ cw' = [cw EXCEPT ![starts] = ToRepo(@, 1)]
    /\ pcMain' = "running"
    /\ UNCHANGED << call, starts, ps, status, fillIdx, client, projects, cancelled,
                    wg, acc, api, panic >>

\* ---------------------------------------------------------------- Stop

\* gitlab.go:58: h.cancel().  The host calls Stop after a Start returned.
StopCancel ==
    /\ Alive
    /\ pcMain \in {"running", "errConfig", "errList", "errStatus"}
    /\ cancelled' = [cancelled EXCEPT ![starts] = TRUE]
    /\ pcMain' = "wait"
    /\ UNCHANGED << call, starts, ps, status, fillIdx, client, projects, wg, mrw, cw,
                    acc, api, panic >>

\* gitlab.go:59: h.wg.Wait() returns once the counter is zero.
StopWait ==
    /\ Alive
    /\ pcMain = "wait"
    /\ wg[starts] = 0
    /\ pcMain' = "stopped"
    /\ UNCHANGED << call, starts, ps, status, fillIdx, client, projects, cancelled,
                    wg, mrw, cw, acc, api, panic >>

\* ------------------------------------------------- fetchMergeRequests

\* gitlab.go:145: the deferred h.wg.Done() of the goroutine of cycle c.
Done(c) == [wg EXCEPT ![c] = @ - 1]

\* gitlab.go:149: the walker issues the request for its page.
MRCall(c) ==
    /\ Alive
    /\ mrw[c].pc = "call"
    /\ mrw' = [mrw EXCEPT ![c].pc = "wait"]
    /\ api' = [api EXCEPT ![c]["mr"] = Requested(@, mrw[c].page)]
    /\ UNCHANGED << call, pcMain, starts, ps, status, fillIdx, client, projects,
                    cancelled, wg, cw, acc, panic >>

\* A walker that reports a fetch error and asks for the page again.
MROnErrorRetry(w) == [w EXCEPT !.pc = "call"]

\* gitlab.go:154-157: the walker's state after a fetch error: break.
MROnError(w) == [w EXCEPT !.pc = "done"]

\* gitlab.go:188-191: the walker's state after a page of n items.
MRAfterPage(w, n) ==
    [pc |-> IF ShortPage(n) THEN "done" ELSE "call", page |-> NextPage(w.page)]

\* gitlab.go:149-192: the answer arrives; on an error report it and break,
\* else emit the page's items in order, close the body, move the cursor and
\* break on a short page.  Leaving the function runs the deferred Done.
MRReturn(c) ==
    /\ Alive
    /\ mrw[c].pc = "wait"
    /\ \E r \in Answers(api[c]["mr"], mrw[c].page, TRUE) :
          LET w == IF r.err # "none" THEN MROnError(mrw[c])
                   ELSE MRAfterPage(mrw[c], r.n) IN
          /\ mrw' = [mrw EXCEPT ![c] = w]
          /\ acc' = [acc EXCEPT ![c]["mr"] =
                        IF r.err # "none" THEN AddError(@, "fetch")
                        ELSE AddMRFields(@, PageItems(mrw[c].page, r.n),
                                         projects)]
          /\ api' = [api EXCEPT ![c]["mr"] =
                        IF r.err # "none" THEN @ ELSE Answered(@, mrw[c].page, r.n)]
          /\ wg' = IF w.pc = "done" THEN Done(c) ELSE wg
    /\ UNCHANGED << call, pcMain, starts, ps, status, fillIdx, client, projects,
                    cancelled, cw, panic >>

\* ------------------------------------------------------- fetchCommits

\* gitlab.go:101-107: resolve the repository's name; an unresolved name is
\* reported, and the walker goes on with the key mapkey left at 0.
CResolve(c) ==
    /\ Alive
    /\ cw[c].pc = "resolve"
    /\ \E r \in mapkey(projects, Repos[cw[c].rep]) :
          /\ cw' = [cw EXCEPT ![c].key = r.key, ![c].page = 0, ![c].pc = "call"]
          /\ acc' = [acc EXCEPT ![c][Repos[cw[c].rep]] =
                        IF r.ok THEN @ ELSE AddError(@, "resolve")]
    /\ UNCHANGED << call, pcMain, starts, ps, status, fillIdx, client, projects,
                    cancelled, wg, mrw, api, panic >>

\* gitlab.go:101 against gitlab.go:83-86: mapkey ranges over h.projects
\* while a Start fills it; the Go runtime may end the process ("concurrent
\* map iteration and map write").
CResolveRace(c) ==
    /\ Alive
    /\ cw[c].pc = "resolve"
    /\ pcMain = "fill"
    /\ panic' = "mapRace"
    /\ UNCHANGED << call, pcMain, starts, ps, status, fillIdx, client, projects,
                    cancelled, wg, mrw, cw, acc, api >>

\* gitlab.go:109: the walker issues the request for its page.
CCall(c) ==
    /\ Alive
    /\ cw[c].pc = "call"
    /\ cw' = [cw EXCEPT ![c].pc = "wait"]
    /\ api' = [api EXCEPT ![c][Repos[cw[c].rep]] = Requested(@, cw[c].page)]
    /\ UNCHANGED << call, pcMain, starts, ps, status, fillIdx, client, projects,
                    cancelled, wg, mrw, acc, panic >>

\* gitlab.go:135-140: the walker's state after a page of n items (after an
\* error commits is nil, a page of no items).
CAfterPage(w, n) ==
    IF ShortPage(n) THEN ToRepo(w, w.rep + 1)
    ELSE [w EXCEPT !.pc = "call", !.page = NextPage(w.page)]

\* gitlab.go:109-140: the answer arrives; an error is reported and the
\* walker goes on: it emits the items (none after an error), then
\* rs.Body.Close(), which dereferences a nil rs when no response was
\* returned, then moves the cursor and breaks on a short page.
CReturn(c) ==
    /\ Alive
    /\ cw[c].pc = "wait"
    /\ LET s == Repos[cw[c].rep] IN
       \E r \in Answers(api[c][s], cw[c].page, cw[c].key # 0) :
          /\ acc' = [acc EXCEPT ![c][s] =
                        IF r.err # "none" THEN AddError(@, "fetch")
                        ELSE AddFields(@, PageItems(cw[c].page, r.n))]
          /\ api' = [api EXCEPT ![c][s] =
                        IF r.err # "none" THEN @ ELSE Answered(@, cw[c].page, r.n)]
          /\ IF r.err = "transport"
             THEN panic' = "nilResponse" /\ cw' = cw
             ELSE panic' = panic /\ cw' = [cw EXCEPT ![c] = CAfterPage(@, r.n)]
    /\ UNCHANGED << call, pcMain, starts, ps, status, fillIdx, client, projects,
                    cancelled, wg, mrw >>

\* ---------------------------------------------------------------- Next

\* One Start/Stop cycle: the host calls Start once, then Stop.
Next ==
    \/ StartBegin
    \/ StartList
    \/ StartMake
    \/ StartFill
    \/ StartStatus
    \/ StartGo
    \/ StopCancel
    \/ StopWait
    \/ \E c \in Cycles : MRCall(c)
    \/ \E c \in Cycles : MRReturn(c)
    \/ \E c \in Cycles : CResolve(c)
    \/ \E c \in Cycles : CCall(c)
    \/ \E c \in Cycles : CReturn(c)

Spec == Init /\ [][Next]_vars

\* The host restarts the plugin (Start, Stop, Start, ...), against an API
\* that is healthy and whose streams are all empty: of the runs of the
\* program, those in which every fetch succeeds with an empty page.
QuietAPI ==
    \A c \in Cycles, s \in Streams :
        /\ api[c][s].known = 0
        /\ \A i \in 1..Len(acc[c][s].errors) : acc[c][s].errors[i] # "fetch"

NextRestart ==
    \/ Next /\ QuietAPI'
    \/ Restart
    \/ \E c \in Cycles : CResolveRace(c)

SpecRestart == Init /\ [][NextRestart]_vars

\* One cycle under fair scheduling: a goroutine that can take a step
\* eventually takes it, a request in flight is eventually answered, and a
\* call of Start or Stop that can go on does.  When the host calls Start
\* and Stop is its own choice.
FairSpec ==
    /\ Spec
    /\ WF_vars(StartList) /\ WF_vars(StartMake) /\ WF_vars(StartFill)
    /\ WF_vars(StartStatus) /\ WF_vars(StartGo) /\ WF_vars(StopWait)
    /\ \A c \in Cycles :
          /\ WF_vars(MRCall(c)) /\ WF_vars(MRReturn(c))
          /\ WF_vars(CResolve(c)) /\ WF_vars(CCall(c)) /\ WF_vars(CReturn(c))

\* ------------------------------------------------ the title functions

\* The characters of the titles that are enumerated whole: a letter, a
\* digit, the separator that Split splits on and one that Replace rewrites.
TitleChars == {"a", "1", "-", "/"}

\* "Fix ABC-1234: bug"
TitleFix ==
    << "F", "i", "x", " ", "A", "B", "C", "-", "1", "2", "3", "4", ":", " ",
      "b", "u", "g" >>

\* "no ticket here"
TitleNoTicket ==
    << "n", "o", " ", "t", "i", "c", "k", "e", "t", " ", "h", "e", "r",
      "e" >>

\* "feature/ABC-123: add login"
TitleFeature ==
    << "f", "e", "a", "t", "u", "r", "e", "/", "A", "B", "C", "-", "1", "2",
      "3", ":", " ", "a", "d", "d", " ", "l", "o", "g", "i", "n" >>

\* "ABC-123 only"
TitleOnly ==
    << "A", "B", "C", "-", "1", "2", "3", " ", "o", "n", "l", "y" >>

\* "a-123456"
TitleSixDigits ==
    << "a", "-", "1", "2", "3", "4", "5", "6" >>

\* "AB2-123"
TitleKeyWithDigit ==
    << "A", "B", "2", "-", "1", "2", "3" >>

\* "a.b.12"
TitleDots ==
    << "a", ".", "b", ".", "1", "2" >>

\* "a_b-12"
TitleUnderscore ==
    << "a", "_", "b", "-", "1", "2" >>

\* "abc:123"
TitleColon ==
    << "a", "b", "c", ":", "1", "2", "3" >>

\* The titles the functions are called with: every string over TitleChars
\* of up to MaxLen characters, and the titles above.
Titles ==
    UNION { [1..n -> TitleChars] : n \in 0..MaxLen }
    \cup { TitleFix, TitleNoTicket, TitleFeature, TitleOnly, TitleSixDigits,
           TitleKeyWithDigit, TitleDots, TitleUnderscore, TitleColon }

\* A title arrives (mr.Title of gitlab.go:161-162); nothing is called yet.
InitText ==
    /\ Idle
    /\ \E t \in Titles : call = [fn |-> "none", arg |-> t]

\* The function named fn is called with the title and returns ret.
Returned(fn, ret) == [fn |-> fn, arg |-> call.arg, ret |-> ret]

\* findTicketID(title)
CallFindTicketID ==
    /\ call.fn = "none"
    /\ call' = Returned("findTicketID", findTicketID(call.arg))
    /\ UNCHANGED << pcMain, starts, ps, status, fillIdx, client, projects,
                    cancelled, wg, mrw, cw, acc, api, panic >>

\* formatTicketID(title)
CallFormatTicketID ==
    /\ call.fn = "none"
    /\ call' = Returned("formatTicketID", formatTicketID(call.arg))
    /\ UNCHANGED << pcMain, starts, ps, status, fillIdx, client, projects,
                    cancelled, wg, mrw, cw, acc, api, panic >>

\* getMRType(title)
CallGetMRType ==
    /\ call.fn = "none"
    /\ call' = Returned("getMRType", getMRType(call.arg))
    /\ UNCHANGED << pcMain, starts, ps, status, fillIdx, client, projects,
                    cancelled, wg, mrw, cw, acc, api, panic >>

NextText ==
    \/ CallFindTicketID
    \/ CallFormatTicketID
    \/ CallGetMRType

SpecText == InitText /\ [][NextText]_vars

\* ------------------------------------------------- the name resolver

\* Project and repository names.
Names == {"a", "b", "c"}

\* The lookups h.projects can be: any identifiers of 1..MaxIDs, each with
\* a name (two projects may carry the same name).
Lookups == UNION { [ids -> Names] : ids \in SUBSET (1..MaxIDs) }

\* A lookup and a repository name arrive (gitlab.go:101); nothing is
\* called yet.
InitLookup ==
    /\ Idle
    /\ \E m \in Lookups, value \in Names :
          call = [fn |-> "none", m |-> m, value |-> value]

\* mapkey(h.projects, rep) in one run of the collector.
CallMapkey ==
    /\ call.fn = "none"
    /\ \E r \in mapkey(call.m, call.value) :
          call' = [fn |-> "mapkey", m |-> call.m, value |-> call.value,
                   ret |-> r]
    /\ UNCHANGED << pcMain, starts, ps, status, fillIdx, client, projects,
                    cancelled, wg, mrw, cw, acc, api, panic >>

\* mapkey(h.projects, rep) with the same lookup and name in another run.
CallMapkeyAgain ==
    /\ call.fn = "mapkey"
    /\ \E r \in mapkey(call.m, call.value) :
          call' = [fn |-> "mapkeyAgain", m |-> call.m, value |-> call.value,
                   ret |-> r, before |-> call.ret]
    /\ UNCHANGED << pcMain, starts, ps, status, fillIdx, client, projects,
                    cancelled, wg, mrw, cw, acc, api, panic >>

NextLookup ==
    \/ CallMapkey
    \/ CallMapkeyAgain

SpecLookup == InitLookup /\ [][NextLookup]_vars

\* ------------------------------------- Gather's goto and the loop

\* What a scripted list-merge-requests call answers: an error, or a page
\* of n items; a server may answer with more items than were asked for.
Responses ==
    {[err |-> TRUE, n |-> 0]} \cup {[err |-> FALSE, n |-> n] : n \in 0..(pp + 1)}

\* The sources both paginations are run against: an answer for each of the
\* pages 0..MaxPage-1; every later page is empty.
Sources == [0..(MaxPage - 1) -> Responses]

\* The answer of source src to a request for `page`.
Resp(src, page) ==
    IF page \in DOMAIN src THEN src[page] ELSE [err |-> FALSE, n |-> 0]

\* The merge requests of a page of n items, in API order.
ItemsOf(page, n) == [i \in 1..n |-> << page, i >>]

\* A pagination before its first request: the cursor at 0, nothing
\* requested, nothing emitted.
Fresh == [pc |-> "call", page |-> 0, requests |-> << >>, fields |-> << >>]

\* A Gather that fetches on while pages are not empty.
GatherContinuesNonEmpty(n) == n > 0

\* part_000:105: if len(mrs) == 100 { cp += 1; goto getmr }
GatherContinues(n) == n = pp

\* part_000:74-112: one pass from the label getmr: the request, the
\* return on an error, the records of the page, then the jump or the return.
GatherPass(g, src) ==
    LET r == Resp(src, g.page)
        asked == Append(g.requests, g.page) IN
    IF r.err
    THEN [g EXCEPT !.pc = "done", !.requests = asked]
    ELSE [pc |-> IF GatherContinues(r.n) THEN "call" ELSE "done",
          page |-> IF GatherContinues(r.n) THEN g.page + 1 ELSE g.page,
          requests |-> asked,
          fields |-> g.fields \o ItemsOf(g.page, r.n)]

\* gitlab.go:148-192: one turn of fetchMergeRequests' for loop: the
\* request, the break on an error, the records of the page, page += 1 and
\* the break on a short page.
LoopPass(l, src) ==
    LET r == Resp(src, l.page)
        asked == Append(l.requests, l.page)
        w == IF r.err THEN MROnError([pc |-> l.pc, page |-> l.page])
             ELSE MRAfterPage([pc |-> l.pc, page |-> l.page], r.n) IN
    [pc |-> w.pc, page |-> w.page, requests |-> asked,
     fields |-> IF r.err THEN l.fields ELSE l.fields \o ItemsOf(l.page, r.n)]

\* Both paginations are set before the same source.
InitEquiv ==
    /\ Idle
    /\ \E src \in Sources :
          call = [fn |-> "paginate", src |-> src, g |-> Fresh, l |-> Fresh]

\* Gather's pagination makes its next pass.
GatherStep ==
    /\ call.fn = "paginate"
    /\ call.g.pc = "call"
    /\ call' = [call EXCEPT !.g = GatherPass(@, call.src)]
    /\ UNCHANGED << pcMain, starts, ps, status, fillIdx, client, projects,
                    cancelled, wg, mrw, cw, acc, api, panic >>

\* fetchMergeRequests' loop makes its next turn.
LoopStep ==
    /\ call.fn = "paginate"
    /\ call.l.pc = "call"
    /\ call' = [call EXCEPT !.l = LoopPass(@, call.src)]
    /\ UNCHANGED << pcMain, starts, ps, status, fillIdx, client, projects,
                    cancelled, wg, mrw, cw, acc, api, panic >>

NextEquiv ==
    \/ GatherStep
    \/ LoopStep

SpecEquiv == InitEquiv /\ [][NextEquiv]_vars

\* ------------------------------------------------------------ streams

RepoIndex(s) == CHOOSE j \in 1..Len(Repos) : Repos[j] = s

\* Stream s of cycle c is over: its walker has left its loop.
Over(c, s) ==
    IF s = "mr" THEN mrw[c].pc = "done"
    ELSE cw[c].pc = "done" \/ (cw[c].pc # "none" /\ cw[c].rep > RepoIndex(s))

\* A goroutine of cycle c is running.
MRRunning(c) == mrw[c].pc \in {"call", "wait"}
CRunning(c) == cw[c].pc \in {"resolve", "call", "wait"}

Count(seq, e) == Cardinality({i \in 1..Len(seq) : seq[i] = e})
FetchErrors(c, s) == Count(acc[c][s].errors, "fetch")
Unresolved(c, s) == Count(acc[c][s].errors, "resolve") > 0

Seq1(n) == [i \in 1..n |-> i]

\* ------------------------------------------------------------- claims

\* C1: a stream whose fetches all succeed emits the items of its source in
\* API order, each once and none skipped: what the sink holds of it is
\* always 1, 2, ..., k with k no more than what a finite source holds, and
\* when the walker leaves the stream the source has been read to its end (a
\* short page was seen) and the sink holds all of its N items.
C1_EveryItemOnceInOrder ==
    \A c \in Cycles, s \in Streams :
        FetchErrors(c, s) = 0 =>
            /\ acc[c][s].fields = Seq1(Len(acc[c][s].fields))
            /\ api[c][s].known <= MaxItems =>
                  Len(acc[c][s].fields) <= api[c][s].known
            /\ Over(c, s) => /\ api[c][s].closed
                             /\ acc[c][s].fields = Seq1(api[c][s].known)

\* C1's case: the merge-request stream and the last repository's commit
\* stream are both over, each having emitted a source of MaxItems items
\* (more than one page) with no error.
C1_Witness ==
    \E c \in Cycles :
        /\ Over(c, "mr") /\ Over(c, Repos[Len(Repos)])
        /\ \A s \in {"mr", Repos[Len(Repos)]} :
              /\ FetchErrors(c, s) = 0
              /\ acc[c][s].fields = Seq1(MaxItems)
              /\ Len(api[c][s].requests) > 1

\* C2: when Stop has returned, no goroutine launched by the Start before
\* it is still running.
C2_StopJoinsEveryWorker ==
    pcMain = "stopped" => ~MRRunning(starts) /\ ~CRunning(starts)

\* C3: once the cancellation signal of a cycle is set, no walker of the
\* cycle issues a page request.
C3_NoFetchAfterCancel ==
    [][\A c \in Cycles :
          cancelled[c] =>
              /\ ~(mrw[c].pc = "call" /\ mrw'[c].pc = "wait")
              /\ ~(cw[c].pc = "call" /\ cw'[c].pc = "wait")]_vars

\* C4: under fair scheduling a Stop called after a successful Start
\* returns (or the process has died before it could).
C4_StopReturns ==
    (pcMain = "wait" /\ mrw[starts].pc # "none")
        ~> (pcMain = "stopped" \/ panic # "none")

\* C5: a failed page fetch is reported and does not end the process: no
\* walker touches a response that was not returned.
C5_FetchFailureIsContained ==
    (\E c \in Cycles, s \in Streams : FetchErrors(c, s) > 0) => panic = "none"

\* Every goroutine of cycle c has left its function.
AllDone(c) == mrw[c].pc = "done" /\ cw[c].pc = "done"

\* Some page request of cycle c was answered without an error.
SomeFetchSucceeded(c) ==
    \E s \in Streams : api[c][s].known > 0 \/ api[c][s].closed

\* C6: one bad page is terminal for its stream.  A stream reports at most
\* one fetch error, and with the report the stream is over (its walker has
\* left it, or the process has ended); from then on nothing more is asked
\* of the API for it and nothing more reaches the sink from it; and under
\* fair scheduling the launched walkers all leave their functions unless
\* some fetch succeeds (or the process ends): none loops on failing fetches.
C6_BadPageIsTerminal ==
    /\ [](\A c \in Cycles, s \in Streams :
             /\ FetchErrors(c, s) <= 1
             /\ FetchErrors(c, s) = 1 => (Over(c, s) \/ panic # "none"))
    /\ [][\A c \in Cycles, s \in Streams :
             FetchErrors(c, s) > 0 =>
                 acc'[c][s] = acc[c][s] /\ api'[c][s] = api[c][s]]_vars
    /\ \A c \in Cycles :
          (mrw[c].pc # "none")
              ~> (AllDone(c) \/ panic # "none" \/ SomeFetchSucceeded(c))

\* C6's case: every fetch of a cycle failed, each stream reported its one
\* error, and every walker has left its function.
C6_Witness ==
    \E c \in Cycles :
        /\ AllDone(c)
        /\ ~SomeFetchSucceeded(c)
        /\ \A s \in Streams :
              FetchErrors(c, s) = 1 /\ api[c][s].requests = << 0 >>

\* C7: a repository whose name resolves to no project is reported and
\* skipped: no list-commits request goes out for it and no record of it
\* reaches the sink.
C7_UnresolvedIsSkipped ==
    \A c \in Cycles, s \in Streams :
        Unresolved(c, s) =>
            api[c][s].requests = << >> /\ acc[c][s].fields = << >>

\* ProjectLookup as list-projects' answer p gives it (the last write of an
\* identifier wins).
MapOf(p) ==
    [id \in {p[i].ID : i \in 1..Len(p)} |->
        LET last == CHOOSE i \in 1..Len(p) :
                       p[i].ID = id /\ \A j \in 1..Len(p) : p[j].ID = id => j <= i
        IN p[last].Name]

\* The goroutines of cycle c have been launched.
Launched(c) == mrw[c].pc # "none" \/ cw[c].pc # "none"

\* C8: walkers are launched only after list-projects succeeded and
\* ProjectLookup is built.  After a Start that failed on list-projects (an
\* error, or a status other than 200) no goroutine of its cycle exists and
\* nothing of the cycle reached the API or the sink; and whenever goroutines
\* of the current cycle exist, Start has passed its go statements with
\* status 200 and h.projects holding the whole list.
C8_WalkersOnlyAfterLookup ==
    /\ pcMain \in {"errList", "errStatus"} =>
          /\ ~Launched(starts)
          /\ \A s \in Streams : acc[starts][s] = NoStream /\ api[starts][s] = NoCalls
    /\ \A c \in Cycles :
          (Launched(c) \/ \E s \in Streams : api[c][s] # NoCalls \/ acc[c][s] # NoStream) =>
              /\ c <= starts
              /\ c = starts => /\ pcMain \in {"running", "wait", "stopped"}
                               /\ status = http_StatusOK
                               /\ projects = MapOf(ps)

\* C8's case: list-projects answered with a status that is not 200, Start
\* has returned its error, and the host has gone on to call Stop.
C8_Witness ==
    /\ pcMain = "wait"
    /\ status # http_StatusOK
    /\ ps # << >>
    /\ ~Launched(starts)

\* The orchestrator's lifecycle state: the cancellation signal and the
\* wait barrier's count of the current cycle, the client, ProjectLookup and
\* the launched workers.
Lifecycle ==
    [signal |-> IF starts = 0 THEN FALSE ELSE cancelled[starts],
     barrier |-> IF starts = 0 THEN 0 ELSE wg[starts],
     client |-> client,
     projects |-> projects,
     workers |-> {c \in Cycles : Launched(c)}]

\* C9: a Start that fails on a malformed endpoint leaves the lifecycle
\* state as it was before the call.
C9_ConfigErrorLeavesNoTrace ==
    [][(pcMain # "errConfig" /\ pcMain' = "errConfig") =>
          Lifecycle' = Lifecycle]_vars

\* A goroutine of cycle c that will still read h.projects: the
\* merge-request walker tags every record from it, the commit walker
\* resolves each repository against it.
WillRead(c) ==
    \/ MRRunning(c)
    \/ cw[c].pc = "resolve"
    \/ cw[c].pc \in {"call", "wait"} /\ cw[c].rep < Len(Repos)

\* C10: h.projects is not replaced or written while a goroutine that reads
\* it is running.
C10_LookupNotWrittenUnderReaders ==
    [][((pcMain = "make" /\ pcMain' = "fill")
           \/ (pcMain = "fill" /\ fillIdx' # fillIdx)) =>
          \A c \in Cycles : ~WillRead(c)]_vars

\* C11: under fair scheduling the commit stream of every configured
\* repository issues its first fetch once the walkers are launched,
\* whatever the other streams do (or the process has died).
C11_EveryCommitStreamProgresses ==
    \A c \in Cycles, j \in 1..Len(Repos) :
        (cw[c].pc # "none")
            ~> (api[c][Repos[j]].requests # << >> \/ panic # "none")

\* Stream s of cycle c has a finite source, met no fetch error and is over.
ReadToEnd(c, s) ==
    Over(c, s) /\ FetchErrors(c, s) = 0 /\ api[c][s].closed

\* ceil(n / p)
CeilDiv(n, p) == (n + p - 1) \div p

\* C12 as stated: a walker over a source of N items emits N records and
\* issues ceil(N/pp) fetches.
C12_CeilFetches ==
    \A c \in Cycles, s \in Streams :
        ReadToEnd(c, s) =>
            /\ Len(acc[c][s].fields) = api[c][s].known
            /\ Len(api[c][s].requests) = CeilDiv(api[c][s].known, pp)

\* C12 as amended: a walker over a source of N items emits N records and
\* issues floor(N/pp) + 1 fetches, the last of them the first to return
\* fewer than pp items; while it walks a finite source it has issued no
\* more than that.
C12_FloorPlusOneFetches ==
    \A c \in Cycles, s \in Streams :
        /\ (FetchErrors(c, s) = 0 /\ api[c][s].known <= MaxItems) =>
              Len(api[c][s].requests) <= (api[c][s].known \div pp) + 1
        /\ ReadToEnd(c, s) =>
              /\ Len(acc[c][s].fields) = api[c][s].known
              /\ Len(api[c][s].requests) = (api[c][s].known \div pp) + 1

\* C12's case: a stream whose source holds exactly pp items (a multiple of
\* the page size) was read to its end, with the extra fetch of an empty
\* page, and another whose source is empty.
C12_Witness ==
    \E c \in Cycles, s, t \in Streams :
        /\ ReadToEnd(c, s) /\ api[c][s].known = pp
        /\ api[c][s].requests = << 0, 1 >>
        /\ ReadToEnd(c, t) /\ api[c][t].known = 0
        /\ api[c][t].requests = << 0 >>

\* C17: the page numbers a stream was asked for are 0, 1, 2, ... in this
\* order with no gap and none twice (each commit stream from 0 again);
\* page k+1 is asked for only when pages 0..k each returned pp items with no
\* error; and once a page came back short or with an error the stream is over
\* (or the process has ended) and no further page is asked for.
C17_CursorCountsUpAndStops ==
    /\ [](\A c \in Cycles, s \in Streams :
            LET rq == api[c][s].requests IN
            /\ \A i \in 1..Len(rq) : rq[i] = Min(i - 1, MaxPage)
            /\ Len(rq) > 1 =>
                  /\ FetchErrors(c, s) = 0 \/ Over(c, s) \/ panic # "none"
                  /\ api[c][s].known >= Min((Len(rq) - 1) * pp, MaxItems + 1)
            /\ (api[c][s].closed \/ FetchErrors(c, s) > 0) =>
                  Over(c, s) \/ panic # "none")
    /\ [][\A c \in Cycles, s \in Streams :
            (api[c][s].closed \/ FetchErrors(c, s) > 0) =>
                api[c][s].requests' = api[c][s].requests]_vars

\* C17's case: the first repository's commit stream was walked over more
\* than one page, and the second repository's stream then asked for pages
\* 0 and 1 of its own.
C17_Witness ==
    \E c \in Cycles :
        /\ Len(api[c][Repos[1]].requests) > 1
        /\ api[c][Repos[1]].closed
        /\ api[c][Repos[2]].requests = << 0, 1 >>
        /\ api[c]["mr"].requests = << 0, 1 >>

\* C18: once Start has returned, the barrier counts the registered
\* goroutines that have not exited (only fetchMergeRequests registers, by
\* its deferred Done); so after a Start that failed and launched nothing the
\* count is zero and Stop's Wait returns.
C18_BarrierCountsLiveWorkers ==
    pcMain \in {"errConfig", "errList", "errStatus", "running", "wait"} =>
        wg[starts] = IF MRRunning(starts) THEN 1 ELSE 0

\* C13: a merge request with an identifier that ProjectLookup does not
\* hold is emitted like any other: every emitted merge request has its one
\* record of tags, each of the three project-name tags is the looked-up
\* name and the empty string when the identifier is absent, nothing but a
\* failed fetch is ever reported for the stream, and the items after it
\* follow (with no fetch error the records are items 1, 2, ... and, when
\* the walker is done, all of the source).
C13_AbsentProjectIsEmittedWithEmptyTag ==
    \A c \in Cycles :
        LET a == acc[c]["mr"] IN
        /\ Len(a.tags) = Len(a.fields)
        /\ \A i \in 1..Len(a.errors) : a.errors[i] = "fetch"
        /\ (c = starts /\ pcMain \in {"running", "wait", "stopped"}) =>
              \A i \in 1..Len(a.tags) :
                 LET mr == a.fields[i] IN
                 /\ a.tags[i].project =
                       IF \E k \in DOMAIN projects : k = MRProjectID(mr)
                       THEN projects[MRProjectID(mr)] ELSE ""
                 /\ a.tags[i].source_project =
                       IF \E k \in DOMAIN projects : k = MRSourceProjectID(mr)
                       THEN projects[MRSourceProjectID(mr)] ELSE ""
                 /\ a.tags[i].target_project =
                       IF \E k \in DOMAIN projects : k = MRTargetProjectID(mr)
                       THEN projects[MRTargetProjectID(mr)] ELSE ""
        /\ FetchErrors(c, "mr") = 0 =>
              /\ a.fields = Seq1(Len(a.fields))
              /\ Over(c, "mr") => a.fields = Seq1(api[c]["mr"].known)

\* C13's case: ProjectLookup holds project 1 only; the merge-request
\* stream emitted its MaxItems items with no error, the second of them with
\* a project identifier the lookup does not hold and the empty tag, and the
\* third after it.
C13_Witness ==
    \E c \in Cycles :
        LET a == acc[c]["mr"] IN
        /\ c = starts
        /\ DOMAIN projects = {1}
        /\ Over(c, "mr")
        /\ a.errors = << >>
        /\ a.fields = Seq1(MaxItems)
        /\ a.tags[1].project # "" /\ a.tags[1].target_project = ""
        /\ a.tags[2].project = "" /\ a.tags[2].source_project = ""

\* t is one or more characters of class C, one non-word character, then
\* two to five digits.
IsTicket(t, C(_)) ==
    \E k \in 1..Len(t) :
        /\ Len(t) - k - 1 \in 2..5
        /\ \A j \in 1..k : C(t[j])
        /\ IsNonWord(t[k + 1])
        /\ \A j \in (k + 2)..Len(t) : IsDigit(t[j])

\* The ends j of the substrings s[i..j] that are tickets.
TicketEnds(s, i, C(_)) == { j \in i..Len(s) : IsTicket(SubSeq(s, i, j), C) }

\* r is the substring of s that starts at position i.
OccursAt(s, i, r) ==
    i + Len(r) - 1 <= Len(s) /\ r = SubSeq(s, i, i + Len(r) - 1)

\* r is a ticket of s at the leftmost position where s has one, and the
\* empty string when s has none.
FirstTicket(s, r, C(_)) ==
    /\ r = << >> <=> \A i \in 1..Len(s) : TicketEnds(s, i, C) = {}
    /\ r # << >> =>
          /\ IsTicket(r, C)
          /\ \E i \in 1..Len(s) :
                /\ OccursAt(s, i, r)
                /\ \A h \in 1..(i - 1) : TicketEnds(s, h, C) = {}

\* C14 as stated: findTicketID returns the leftmost substring made of word
\* characters, one non-word separator and 2 to 5 digits, and the empty
\* string when the title has none.
C14_FirstWordCharsTicket ==
    call.fn = "findTicketID" => FirstTicket(call.arg, call.ret, IsWord)

\* C14 as amended: findTicketID returns the leftmost substring made of one
\* or more ASCII letters, one non-word separator and 2 to 5 digits (as many
\* digits as there are, up to 5), and the empty string when the title has
\* none.
C14_FirstLettersTicket ==
    call.fn = "findTicketID" =>
        /\ FirstTicket(call.arg, call.ret, IsLetter)
        /\ \A i \in 1..Len(call.arg) :
              (call.ret # << >> /\ OccursAt(call.arg, i, call.ret)) =>
                 \A j \in TicketEnds(call.arg, i, IsLetter) :
                    j <= i + Len(call.ret) - 1

\* C14's case: "Fix ABC-1234: bug" gave "ABC-1234", a ticket that is not at
\* the start of the title.
C14_Witness ==
    /\ call.fn = "findTicketID"
    /\ call.arg = TitleFix
    /\ call.ret = << "A", "B", "C", "-", "1", "2", "3", "4" >>

\* t is two groups of characters of class C with a non-word character
\* after each, then two to five digits.
IsTypedTicket(t, C(_)) ==
    \E k \in 1..Len(t) :
        /\ \A j \in 1..k : C(t[j])
        /\ k < Len(t) /\ IsNonWord(t[k + 1])
        /\ IsTicket(SubSeq(t, k + 2, Len(t)), C)

\* The characters formatTicketID turns into "-", and "-" itself.
IsDash(ch) == ch \in {"-", "/", " ", ":"}

\* u is ch in upper case.
UpperOf(ch, u) ==
    IF \E i \in 1..26 : ch = LowerCase[i]
    THEN \E i \in 1..26 : ch = LowerCase[i] /\ u = UpperCase[i]
    ELSE u = ch

\* r is the type of title s: with s[1..j] the longest typed ticket s
\* starts with, r is s[1..j] in upper case up to its first dash (all of it
\* when it has none); r is the empty string when s starts with none.
TypeOf(s, r, C(_)) ==
    LET ends == { j \in 1..Len(s) : IsTypedTicket(SubSeq(s, 1, j), C) } IN
    IF ends = {} THEN r = << >>
    ELSE LET j == CHOOSE x \in ends : \A y \in ends : y <= x IN
         /\ Len(r) \in 1..j
         /\ \A i \in 1..Len(r) : ~IsDash(s[i]) /\ UpperOf(s[i], r[i])
         /\ Len(r) < j => IsDash(s[Len(r) + 1])

\* C15 as stated: getMRType returns, for every title, the upper-cased first
\* segment of the match of "word characters, separator, word characters,
\* separator, 2 to 5 digits" at the title's start, and the empty string
\* when there is no such match.
C15_TypeOfWordChars ==
    call.fn = "getMRType" => TypeOf(call.arg, call.ret, IsWord)

\* C15 as amended: getMRType returns, for every title, the upper-cased
\* first segment of the match of "ASCII letters, separator, ASCII letters,
\* separator, 2 to 5 digits" at the title's start, and the empty string
\* when there is no such match; formatTicketID keeps the length of its
\* argument, rewrites '/', ' ' and ':' to '-' and upper-cases the rest.
C15_TypeOfLetters ==
    /\ call.fn = "getMRType" => TypeOf(call.arg, call.ret, IsLetter)
    /\ call.fn = "formatTicketID" =>
          /\ Len(call.ret) = Len(call.arg)
          /\ \A i \in 1..Len(call.arg) :
                IF call.arg[i] \in {"/", " ", ":"} THEN call.ret[i] = "-"
                ELSE UpperOf(call.arg[i], call.ret[i])

\* C15's case: "feature/ABC-123: add login" gave "FEATURE".
C15_Witness ==
    /\ call.fn = "getMRType"
    /\ call.arg = TitleFeature
    /\ call.ret = << "F", "E", "A", "T", "U", "R", "E" >>

\* C16: resolution is by exact name: mapkey reports ok, with an identifier
\* whose name in the lookup is the name asked for, exactly when some
\* project of the lookup has that name; otherwise it reports not ok (and
\* the identifier 0).
C16_ResolvesExactName ==
    call.fn \in {"mapkey", "mapkeyAgain"} =>
        LET named == \E k \in DOMAIN call.m : call.m[k] = call.value IN
        /\ call.ret.ok <=> named
        /\ call.ret.ok =>
              call.ret.key \in DOMAIN call.m /\ call.m[call.ret.key] = call.value
        /\ ~call.ret.ok => call.ret.key = 0

\* C16's case: the lookup {1: "a", 2: "b"} resolved "b" to 2.
C16_Witness ==
    /\ call.fn = "mapkey"
    /\ call.m = << "a", "b" >>
    /\ call.value = "b"
    /\ call.ret = [key |-> 2, ok |-> TRUE]

\* C19: two runs of the resolver with the same lookup and the same name
\* return the same identifier.
C19_SameLookupSameKey ==
    call.fn = "mapkeyAgain" => call.ret = call.before

\* a is a prefix of b, or b of a.
OneExtendsOther(a, b) ==
    \/ Len(a) <= Len(b) /\ a = SubSeq(b, 1, Len(a))
    \/ Len(b) <= Len(a) /\ b = SubSeq(a, 1, Len(b))

\* Both paginations have stopped.
BothStopped == call.g.pc = "done" /\ call.l.pc = "done"

\* No page of the source holds more items than the page size.
NoLongPage == \A k \in DOMAIN call.src : call.src[k].n <= pp

\* C20 as stated: against any source, Gather's goto pagination and the
\* structured loop request the same pages, emit the same items in the same
\* order and stop after the same page.
C20_GotoEqualsLoop ==
    call.fn = "paginate" =>
        /\ OneExtendsOther(call.g.requests, call.l.requests)
        /\ OneExtendsOther(call.g.fields, call.l.fields)
        /\ BothStopped => /\ call.g.requests = call.l.requests
                          /\ call.g.fields = call.l.fields

\* C20 as amended: against any source whose pages hold no more than
\* page-size items (errors at any page included), the two paginations
\* request the same pages, emit the same items in the same order and stop
\* after the same page.
C20_GotoEqualsLoopOnBoundedPages ==
    (call.fn = "paginate" /\ NoLongPage) =>
        /\ OneExtendsOther(call.g.requests, call.l.requests)
        /\ OneExtendsOther(call.g.fields, call.l.fields)
        /\ BothStopped => /\ call.g.requests = call.l.requests
                          /\ call.g.fields = call.l.fields

\* C20's case: a full page, then an error: both paginations asked for pages
\* 0 and 1, emitted the items of page 0 and stopped.
C20_Witness ==
    /\ call.fn = "paginate"
    /\ BothStopped
    /\ call.src[0] = [err |-> FALSE, n |-> pp]
    /\ call.src[1].err
    /\ call.g.requests = << 0, 1 >> /\ call.l.requests = << 0, 1 >>
    /\ call.g.fields = ItemsOf(0, pp) /\ call.l.fields = ItemsOf(0, pp)

====
